---- MODULE Spec2Model ----
(***************************************************************************)
(* Receipty: the extraction / validation / persistence pipeline of         *)
(* src/receipty/api/LLM_processor.py with the schema of                    *)
(* src/receipty/models/receipt_models.py, over a store holding the         *)
(* `receipts` and `items` tables.                                          *)
(*                                                                         *)
(* Decimal amounts are integers counting units of 0.0001 (15.00 is         *)
(* 150000); every amount of the model has at most four decimals, so the    *)
(* float() applied before a store write keeps distinct amounts distinct.   *)
(* Each store request and the extraction call is one step of a run, so     *)
(* runs of different worker processes interleave between any two of them.  *)
(***************************************************************************)
EXTENDS Integers, Sequences, FiniteSets, TLC

VARIABLES
    status,             \* receipts.status, per receipt id
    fields,             \* receipts.(merchant, receipt_date, total_amount), or None
    items,              \* the rows of table items, per receipt_id, in insertion order
    pc,                 \* where each batch run is in process_pending_receipts
    pending_receipts,   \* per run: the ids returned by its fetch
    idx,                \* per run: position of the for loop in pending_receipts
    processed_count,    \* per run: processed_count
    structured_data,    \* per run: the validated StructuredReceiptData, or None
    llm_calls,          \* per run and receipt: number of extraction calls made
    raw_response,       \* per run and receipt: the last response of the service
    write_failed,       \* per run: receipts for which one of its store writes raised
    writer_result,      \* per run and receipt: what _update_database returned
    fetch_ok,           \* per run: whether its fetch succeeded
    claim_writes,       \* per run and receipt: number of claim writes issued
    writer_calls,       \* per run and receipt: number of calls of _update_database
    api,                \* the request to POST /process-receipts: how far its
                        \* handling has come, the tasks it queued, its response
    v_in,               \* function check: the input a pure function is applied to
    v_out               \* function check: the function's result for v_in

vars == << status, fields, items, pc, pending_receipts, idx, processed_count,
           structured_data, llm_calls, raw_response, write_failed, writer_result,
           fetch_ok, claim_writes, writer_calls, api, v_in, v_out >>

store == << status, fields, items >>

----------------------------------------------------------------------------
(* Bounds *)

NumReceipts == 3

\* receipts that may be pending when two runs are triggered together
ConcReceipts == 1

\* receipts that may be pending or failed when a run meets the dashboard's retry
RetryReceipts == 2

MaxItems == 2

MaxQuantity == 2

MaxTotal == 45

\* largest line amount handed to the price normalizer, in units of 0.0001
MaxLineAmount == 60

----------------------------------------------------------------------------
(* Enumerations and constants of the schema *)

Receipts == 1..NumReceipts

Runs == {"A", "B"}

MainRun == "A"

None == [tag |-> "None"]

NoCall == [tag |-> "NoCall"]

PENDING == "pending"

PROCESSING == "processing"

PROCESSED == "processed"

FAILED == "failed"

Status == {PENDING, PROCESSING, PROCESSED, FAILED}

AUTRE == "Autre"

Categories == {"Alimentation", "Loisirs", "Transport", "Maison", "Vetements",
               "Sante", "Factures", "Technologie", AUTRE}

\* Decimal("0.02"), in units of 0.0001
tolerance == 200

\* the strings date.fromisoformat accepts, among those the payloads use
IsoDates == {"2024-03-01"}

----------------------------------------------------------------------------
(* Pure helpers *)

Abs(n) == IF n < 0 THEN 0 - n ELSE n

RECURSIVE SumLines(_)
\* sum(item.price * item.quantity for item in self.items)
SumLines(its) ==
    IF its = << >> THEN 0
    ELSE Head(its).price * Head(its).quantity + SumLines(Tail(its))

\* getattr on a pydantic model: only declared fields are attributes
HasAttr(obj, a) == a \in DOMAIN obj

----------------------------------------------------------------------------
(* The schema: receipt_models.py *)

\* the field constraints of a line without PositiveInt on quantity
ItemValidAnyQuantity(raw) ==
    /\ "name" \in DOMAIN raw /\ raw.name # ""
    /\ "quantity" \in DOMAIN raw
    /\ "price" \in DOMAIN raw /\ raw.price >= 0
    /\ ("category" \in DOMAIN raw => raw.category \in Categories)

\* ItemData field constraints. A raw item is the JSON object of one line; keys
\* the model does not declare (such as line_price) are ignored by pydantic.
ItemValid(raw) ==
    /\ "name" \in DOMAIN raw /\ raw.name # ""
    /\ "quantity" \in DOMAIN raw /\ raw.quantity >= 1
    /\ "price" \in DOMAIN raw /\ raw.price >= 0
    /\ ("category" \in DOMAIN raw => raw.category \in Categories)

\* an ItemData whose category is the default whatever the line says
ItemDataAlwaysAutre(raw) ==
    [name |-> raw.name, quantity |-> raw.quantity, price |-> raw.price,
     category |-> AUTRE]

\* The validated ItemData: exactly the declared fields, category defaulted.
ItemData(raw) ==
    [name |-> raw.name,
     quantity |-> raw.quantity,
     price |-> raw.price,
     category |-> IF "category" \in DOMAIN raw THEN raw.category ELSE AUTRE]

\* the field constraints without min_length=1 on items
FieldsValidAnyLength(raw) ==
    /\ "merchant" \in DOMAIN raw /\ raw.merchant # ""
    /\ "receipt_date" \in DOMAIN raw /\ raw.receipt_date \in IsoDates
    /\ "total_amount" \in DOMAIN raw /\ raw.total_amount >= 0
    /\ "items" \in DOMAIN raw
    /\ \A i \in 1..Len(raw.items) : ItemValid(raw.items[i])

\* StructuredReceiptData field constraints (before the model validator).
FieldsValid(raw) ==
    /\ "merchant" \in DOMAIN raw /\ raw.merchant # ""
    /\ "receipt_date" \in DOMAIN raw /\ raw.receipt_date \in IsoDates
    /\ "total_amount" \in DOMAIN raw /\ raw.total_amount >= 0
    /\ "items" \in DOMAIN raw /\ Len(raw.items) >= 1
    /\ \A i \in 1..Len(raw.items) : ItemValid(raw.items[i])

StructuredReceiptData(raw) ==
    [merchant |-> raw.merchant,
     receipt_date |-> raw.receipt_date,
     total_amount |-> raw.total_amount,
     items |-> [i \in 1..Len(raw.items) |-> ItemData(raw.items[i])]]

\* the reconciliation without abs(): only an item sum above the total is caught
check_total_signed(data) ==
    ~((SumLines(data.items) - data.total_amount) > tolerance)

\* the reconciliation with >= for >: a difference of exactly 0.02 is rejected
check_total_strict(data) ==
    ~(Abs(SumLines(data.items) - data.total_amount) >= tolerance)

\* model_validator(mode="after"): TRUE when the model is returned, FALSE when
\* ValueError is raised.
check_total_matches_items_sum(data) ==
    ~(Abs(SumLines(data.items) - data.total_amount) > tolerance)

\* StructuredReceiptData.model_validate_json wrapped by the try/except of
\* _parse_and_validate_response: the model, or None on ValidationError.
_parse_and_validate_response(raw) ==
    IF FieldsValid(raw) /\ check_total_matches_items_sum(StructuredReceiptData(raw))
    THEN StructuredReceiptData(raw)
    ELSE None

----------------------------------------------------------------------------
(* What the extraction service may answer *)

LaitUnit == [name |-> "Lait", quantity |-> 2, price |-> 15000,
             category |-> "Alimentation"]

PainUnit == [name |-> "Pain", quantity |-> 1, price |-> 120000,
             category |-> "Alimentation"]

\* the same lines as the prompt asks for them: the line's total as line_price
LaitLine == [name |-> "Lait", quantity |-> 2, line_price |-> 30000,
             category |-> "Alimentation"]

PainLine == [name |-> "Pain", quantity |-> 1, line_price |-> 120000,
             category |-> "Alimentation"]

LaitBoth == [name |-> "Lait", quantity |-> 2, price |-> 15000,
             line_price |-> 30000, category |-> "Alimentation"]

PainBoth == [name |-> "Pain", quantity |-> 1, price |-> 120000,
             line_price |-> 120000, category |-> "Alimentation"]

Payload(total, its) ==
    [merchant |-> "Carrefour", receipt_date |-> "2024-03-01",
     total_amount |-> total, items |-> its]

\* total 15.00, lines 2 x 1.50 and 1 x 12.00, shaped as the JSON schema is
P_UNIT == Payload(150000, << LaitUnit, PainUnit >>)

\* the same receipt shaped as the prompt words it
P_LINE == Payload(150000, << LaitLine, PainLine >>)

\* the same receipt carrying both keys
P_BOTH == Payload(150000, << LaitBoth, PainBoth >>)

\* total 20.00 over lines summing to 15.00
P_MISMATCH == Payload(200000, << LaitUnit, PainUnit >>)

\* an extraction without any line, total 0.00
P_EMPTY == Payload(0, << >>)

\* a line of quantity 0, total 0.00
P_ZERO_QTY == Payload(0, << [name |-> "Lait", quantity |-> 0, price |-> 15000,
                             category |-> "Alimentation"] >>)

RawPayloads == {P_UNIT, P_LINE, P_BOTH, P_MISMATCH, P_EMPTY, P_ZERO_QTY}

\* a tool call whose arguments are the empty string
EmptyString == [tag |-> "EmptyString"]

\* _call_llm_api returns the tool call's arguments, or None after an error, a
\* missing tool call or an unexpected tool name
Responses == {None, EmptyString} \cup RawPayloads

\* Python truthiness of raw_response
Falsy(resp) == resp \in {None, EmptyString}

----------------------------------------------------------------------------
(* The extraction client: _call_llm_api *)

\* line 79
tool_name == "save_structured_receipt"

\* what client.chat.completions.create does: it raises, ...
ServiceError == [kind |-> "error"]

\* ... or answers without a tool call, ...
NoToolCall == [kind |-> "response", tool_calls |-> << >>]

\* ... or answers with one tool call
ToolCall(name, arguments) ==
    [kind |-> "response",
     tool_calls |-> << [name |-> name, arguments |-> arguments] >>]

ToolNames == {tool_name, "other_tool"}

ServiceOutcomes ==
    {ServiceError, NoToolCall}
        \cup {ToolCall(n, a) : n \in ToolNames, a \in Responses \ {None}}

\* lines 83-116, the body of the try block: one awaited service call, then
\* tool_calls[0], which raises when there is no tool call, then the name test
TryBody(outcome) ==
    IF outcome.kind = "error"
    THEN [raised |-> TRUE, value |-> None, service_calls |-> 1]
    ELSE IF outcome.tool_calls = << >>
    THEN [raised |-> TRUE, value |-> None, service_calls |-> 1]
    ELSE IF outcome.tool_calls[1].name = tool_name
    THEN [raised |-> FALSE, value |-> outcome.tool_calls[1].arguments,
          service_calls |-> 1]
    ELSE [raised |-> FALSE, value |-> None, service_calls |-> 1]

\* the try block without its except clause
_call_llm_api_unguarded(outcome) == TryBody(outcome)

\* lines 82-120: except Exception turns whatever the body raised into None
_call_llm_api(outcome) ==
    IF TryBody(outcome).raised
    THEN [raised |-> FALSE, value |-> None,
          service_calls |-> TryBody(outcome).service_calls]
    ELSE TryBody(outcome)

----------------------------------------------------------------------------
(* The persistence writer: _update_database *)

update_data(data) ==
    [merchant |-> data.merchant,
     receipt_date |-> data.receipt_date,
     total_amount |-> data.total_amount]

\* a quantize that drops the digits after the fourth decimal
unit_price_truncated(line_price, quantity) == line_price \div quantity

\* (line_price / quantity).quantize(Decimal("0.0001"), rounding=ROUND_HALF_UP)
\* for line_price >= 0 and quantity >= 1, in units of 0.0001
unit_price(line_price, quantity) == (2 * line_price + quantity) \div (2 * quantity)

\* The loop that builds items_to_insert raises AttributeError at the first item
\* that has no attribute line_price.
PrepareRaises(data) ==
    \E i \in 1..Len(data.items) : ~HasAttr(data.items[i], "line_price")

items_to_insert(receipt_id, data) ==
    [i \in 1..Len(data.items) |->
        [receipt_id |-> receipt_id,
         name |-> data.items[i].name,
         quantity |-> data.items[i].quantity,
         price |-> unit_price(data.items[i].line_price, data.items[i].quantity),
         category |-> data.items[i].category]]

----------------------------------------------------------------------------
(* The batch run: process_pending_receipts *)

RECURSIVE PendingFrom(_, _)
\* the ids with status pending, from id r upward, in the store's id order
PendingFrom(r, st) ==
    IF r > NumReceipts THEN << >>
    ELSE IF st[r] = PENDING THEN << r >> \o PendingFrom(r + 1, st)
    ELSE PendingFrom(r + 1, st)

\* a select that also takes the receipts in processing
SelectPendingOrProcessing(st) ==
    SelectSeq([r \in Receipts |-> r], LAMBDA r : st[r] \in {PENDING, PROCESSING})

\* a select without the filter on status
SelectPendingUnfiltered(st) == [r \in Receipts |-> r]

\* select("id, extracted_text").eq("status", "pending")
SelectPending(st) == PendingFrom(1, st)

\* the fetch whose except branch does not return
FetchResultSwallowed(ok, st) == [raised |-> FALSE, data |-> SelectPending(st)]

\* the try/except around the fetch: response.data, or the exception caught
FetchResult(ok, st) ==
    IF ok THEN [raised |-> FALSE, data |-> SelectPending(st)]
    ELSE [raised |-> TRUE, data |-> << >>]

\* the claim write without its .eq("id", receipt_id) filter
ClaimWriteUnfiltered(st, r) == [x \in Receipts |-> PROCESSING]

\* update({"status": PROCESSING}).eq("id", receipt_id)
ClaimWrite(st, r) == [st EXCEPT ![r] = PROCESSING]

\* a receipt update that leaves the status column for after the item insert
ProcessedWriteDeferred(st, r) == st

\* update(update_data).eq("id", receipt_id), the status column
ProcessedWrite(st, r) == [st EXCEPT ![r] = PROCESSED]

\* the compensating write putting the receipt back to pending
RollbackWritePending(st, r) == [st EXCEPT ![r] = PENDING]

\* an except branch of the writer that leaves the status as it is
RollbackWriteSkipped(st, r) == st

\* _update_database's except branch: update({"status": FAILED}).eq("id", receipt_id)
RollbackWrite(st, r) == [st EXCEPT ![r] = FAILED]

\* an except branch that writes nothing
HandlerWriteSkipped(st, r) == st

\* the except branch's write without its .eq("id", receipt_id) filter
HandlerWriteUnfiltered(st, r) == [x \in Receipts |-> FAILED]

\* an except branch that puts the receipt back to pending
HandlerWritePending(st, r) == [st EXCEPT ![r] = PENDING]

\* the loop's except branch: update({"status": FAILED}).eq("id", receipt_id)
HandlerWrite(st, r) == [st EXCEPT ![r] = FAILED]

\* a loop that queries the pending receipts again at every use
CurrentRefetched(run) ==
    IF SelectPending(status) # << >> THEN Head(SelectPending(status))
    ELSE pending_receipts[run][idx[run]]

\* the receipt the for loop of run is at
Current(run) == pending_receipts[run][idx[run]]

\* where the loop goes after the receipt it is at
AfterReceipt(run) ==
    IF idx[run] < Len(pending_receipts[run]) THEN "claim" ELSE "finished"

\* a loop that stays on the receipt it is at
NextIdxStuck(run) == idx[run]

\* the for loop's next position (kept at the last one when the loop ends)
NextIdx(run) == IF AfterReceipt(run) = "claim" THEN idx[run] + 1 ELSE idx[run]

\* lines 232-249: the fetch, the two early returns, processed_count = 0
Fetch(run) ==
    /\ pc[run] = "start"
    /\ \E ok \in BOOLEAN :
        /\ fetch_ok' = [fetch_ok EXCEPT ![run] = IF ok THEN "ok" ELSE "error"]
        /\ IF FetchResult(ok, status).raised
           THEN /\ pc' = [pc EXCEPT ![run] = "fetch_failed"]
                /\ UNCHANGED << pending_receipts, idx >>
           ELSE IF FetchResult(ok, status).data = << >>
           THEN /\ pc' = [pc EXCEPT ![run] = "no_pending"]
                /\ UNCHANGED << pending_receipts, idx >>
           ELSE /\ pending_receipts' = [pending_receipts EXCEPT
                                           ![run] = FetchResult(ok, status).data]
                /\ idx' = [idx EXCEPT ![run] = 1]
                /\ pc' = [pc EXCEPT ![run] = "claim"]
    /\ UNCHANGED << store, processed_count, structured_data, llm_calls,
                    raw_response, write_failed, writer_result, claim_writes, writer_calls,
                    api, v_in, v_out >>

\* lines 257-260: the claim write
Claim(run) ==
    /\ pc[run] = "claim"
    /\ \E ok \in BOOLEAN :
        IF ok
        THEN /\ status' = ClaimWrite(status, Current(run))
             /\ pc' = [pc EXCEPT ![run] = "llm"]
             /\ UNCHANGED write_failed
        ELSE /\ pc' = [pc EXCEPT ![run] = "handler"]
             /\ write_failed' = [write_failed EXCEPT ![run] = @ \cup {Current(run)}]
             /\ UNCHANGED status
    /\ claim_writes' = [claim_writes EXCEPT ![run][Current(run)] = @ + 1]
    /\ UNCHANGED << fields, items, pending_receipts, idx, processed_count,
                    structured_data, llm_calls, raw_response, writer_result,
                    fetch_ok, writer_calls, api, v_in, v_out >>

\* lines 262-278: the awaited extraction call returns resp; an exception out of
\* it, a falsy response and a rejected one go to the except branch; an accepted
\* one is handed to _update_database
CallLLM(run) ==
    /\ pc[run] = "llm"
    /\ \E outcome \in ServiceOutcomes :
        LET call == _call_llm_api(outcome)
            resp == call.value
        IN  /\ llm_calls' = [llm_calls EXCEPT
                                ![run][Current(run)] = @ + call.service_calls]
            /\ IF call.raised
               THEN /\ pc' = [pc EXCEPT ![run] = "handler"]
                    /\ UNCHANGED << raw_response, structured_data, writer_calls >>
               ELSE /\ raw_response' = [raw_response EXCEPT ![run][Current(run)] = resp]
                    /\ IF Falsy(resp) \/ _parse_and_validate_response(resp) = None
                       THEN /\ pc' = [pc EXCEPT ![run] = "handler"]
                            /\ UNCHANGED << structured_data, writer_calls >>
                       ELSE /\ structured_data' = [structured_data EXCEPT
                                      ![run] = _parse_and_validate_response(resp)]
                            /\ writer_calls' = [writer_calls EXCEPT
                                      ![run][Current(run)] = @ + 1]
                            /\ pc' = [pc EXCEPT ![run] = "db_update"]
    /\ UNCHANGED << store, pending_receipts, idx, processed_count, write_failed,
                    writer_result, fetch_ok, claim_writes, api, v_in, v_out >>

\* _update_database lines 177-183: the receipt update, status PROCESSED included
DbUpdate(run) ==
    /\ pc[run] = "db_update"
    /\ \E ok \in BOOLEAN :
        IF ok
        THEN /\ status' = ProcessedWrite(status, Current(run))
             /\ fields' = [fields EXCEPT ![Current(run)] = update_data(structured_data[run])]
             /\ pc' = [pc EXCEPT ![run] = "db_items"]
             /\ UNCHANGED write_failed
        ELSE /\ pc' = [pc EXCEPT ![run] = "db_rollback"]
             /\ write_failed' = [write_failed EXCEPT ![run] = @ \cup {Current(run)}]
             /\ UNCHANGED << status, fields >>
    /\ UNCHANGED << items, pending_receipts, idx, processed_count, structured_data,
                    llm_calls, raw_response, writer_result, fetch_ok, claim_writes, writer_calls,
                    api, v_in, v_out >>

\* _update_database lines 185-207 and the caller's lines 277-278: build
\* items_to_insert, insert it when it is not empty, return True
DbItems(run) ==
    /\ pc[run] = "db_items"
    /\ IF PrepareRaises(structured_data[run])
       THEN /\ pc' = [pc EXCEPT ![run] = "db_rollback"]
            /\ UNCHANGED << items, processed_count, idx, structured_data,
                            write_failed, writer_result >>
       ELSE \E ok \in BOOLEAN :
            IF ok \/ items_to_insert(Current(run), structured_data[run]) = << >>
            THEN /\ items' = [items EXCEPT ![Current(run)] =
                                 @ \o items_to_insert(Current(run), structured_data[run])]
                 /\ writer_result' = [writer_result EXCEPT ![run][Current(run)] = "True"]
                 /\ processed_count' = [processed_count EXCEPT ![run] = @ + 1]
                 /\ structured_data' = [structured_data EXCEPT ![run] = None]
                 /\ idx' = [idx EXCEPT ![run] = NextIdx(run)]
                 /\ pc' = [pc EXCEPT ![run] = AfterReceipt(run)]
                 /\ UNCHANGED write_failed
            ELSE /\ pc' = [pc EXCEPT ![run] = "db_rollback"]
                 /\ write_failed' = [write_failed EXCEPT ![run] = @ \cup {Current(run)}]
                 /\ UNCHANGED << items, processed_count, idx, structured_data,
                                 writer_result >>
    /\ UNCHANGED << status, fields, pending_receipts, llm_calls, raw_response,
                    fetch_ok, claim_writes, writer_calls,
                    api, v_in, v_out >>

\* _update_database lines 209-215: the except branch writes FAILED and returns
\* False; when that write raises too, the exception leaves _update_database
DbRollback(run) ==
    /\ pc[run] = "db_rollback"
    /\ \E ok \in BOOLEAN :
        IF ok
        THEN /\ status' = RollbackWrite(status, Current(run))
             /\ writer_result' = [writer_result EXCEPT ![run][Current(run)] = "False"]
             /\ idx' = [idx EXCEPT ![run] = NextIdx(run)]
             /\ pc' = [pc EXCEPT ![run] = AfterReceipt(run)]
             /\ UNCHANGED write_failed
        ELSE /\ pc' = [pc EXCEPT ![run] = "handler"]
             /\ write_failed' = [write_failed EXCEPT ![run] = @ \cup {Current(run)}]
             /\ UNCHANGED << status, idx, writer_result >>
    /\ structured_data' = [structured_data EXCEPT ![run] = None]
    /\ UNCHANGED << fields, items, pending_receipts, processed_count, llm_calls,
                    raw_response, fetch_ok, claim_writes, writer_calls,
                    api, v_in, v_out >>

\* lines 280-285: the except branch of the loop body writes FAILED; when that
\* write raises, the exception leaves process_pending_receipts
Handler(run) ==
    /\ pc[run] = "handler"
    /\ \E ok \in BOOLEAN :
        IF ok
        THEN /\ status' = HandlerWrite(status, Current(run))
             /\ idx' = [idx EXCEPT ![run] = NextIdx(run)]
             /\ pc' = [pc EXCEPT ![run] = AfterReceipt(run)]
             /\ UNCHANGED write_failed
        ELSE /\ pc' = [pc EXCEPT ![run] = "aborted"]
             /\ write_failed' = [write_failed EXCEPT ![run] = @ \cup {Current(run)}]
             /\ UNCHANGED << status, idx >>
    /\ UNCHANGED << fields, items, pending_receipts, processed_count, structured_data,
                    llm_calls, raw_response, writer_result, fetch_ok, claim_writes, writer_calls,
                    api, v_in, v_out >>

process_pending_receipts(run) ==
    \/ Fetch(run)
    \/ Claim(run)
    \/ CallLLM(run)
    \/ DbUpdate(run)
    \/ DbItems(run)
    \/ DbRollback(run)
    \/ Handler(run)

----------------------------------------------------------------------------
(* The dashboard's developer tool *)

\* a retry that resets every receipt that is not processed
RetryAllUnfinished ==
    /\ \E r \in Receipts : status[r] = FAILED
    /\ status' = [r \in Receipts |-> IF status[r] # PROCESSED THEN PENDING
                                     ELSE status[r]]
    /\ UNCHANGED << fields, items, pc, pending_receipts, idx, processed_count,
                    structured_data, llm_calls, raw_response, write_failed,
                    writer_result, fetch_ok, claim_writes, writer_calls,
                    api, v_in, v_out >>

\* app.py lines 475-480: update({"status": "pending"}).eq("status", "failed")
RetryAllFailed ==
    /\ \E r \in Receipts : status[r] = FAILED
    /\ \E ok \in BOOLEAN :
        status' = IF ok
                  THEN [r \in Receipts |-> IF status[r] = FAILED THEN PENDING
                                           ELSE status[r]]
                  ELSE status
    /\ UNCHANGED << fields, items, pc, pending_receipts, idx, processed_count,
                    structured_data, llm_calls, raw_response, write_failed,
                    writer_result, fetch_ok, claim_writes, writer_calls,
                    api, v_in, v_out >>

----------------------------------------------------------------------------
(* The batch trigger endpoint: trigger_processing *)

\* the decorator's status_code
status_code == 202

\* the position of a run among the tasks a request queues
TaskIndex(run) == IF run = MainRun THEN 1 ELSE 2

\* lines 55-57: the handler queues process_pending_receipts as a background task
Trigger ==
    /\ api.phase = "none"
    /\ api' = [phase |-> "queued", tasks |-> api.tasks + 1, response |-> NoCall]
    /\ UNCHANGED << store, pc, pending_receipts, idx, processed_count,
                    structured_data, llm_calls, raw_response, write_failed,
                    writer_result, fetch_ok, claim_writes, writer_calls,
                    v_in, v_out >>

\* line 59: the handler returns its message, sent with status 202
Respond ==
    /\ api.phase = "queued"
    /\ api' = [api EXCEPT
                 !.phase = "responded",
                 !.response =
                     [status_code |-> status_code,
                      body |->
                          [message |-> "Receipt processing started in the background."]]]
    /\ UNCHANGED << store, pc, pending_receipts, idx, processed_count,
                    structured_data, llm_calls, raw_response, write_failed,
                    writer_result, fetch_ok, claim_writes, writer_calls,
                    v_in, v_out >>

trigger_processing == Trigger \/ Respond

\* a handler that awaits the run itself before it returns
TaskMayRunInline(a, run) == a.phase = "queued" /\ TaskIndex(run) <= a.tasks

\* background_tasks.add_task: a queued task is run after the response is sent
TaskMayRun(a, run) == a.phase = "responded" /\ TaskIndex(run) <= a.tasks

BackgroundRun(run) ==
    /\ TaskMayRun(api, run)
    /\ process_pending_receipts(run)

----------------------------------------------------------------------------
(* The validator applied to bounded payloads *)

\* structurally valid lines: a quantity from 1 and a unit price of 0, 0.001,
\* 0.005 or 0.006
ValidatorItems ==
    {[name |-> "Lait", quantity |-> q, price |-> p] :
        q \in 1..MaxQuantity, p \in {0, 10, 50, 60}}

ValidatorItemLists ==
    UNION {[1..n -> ValidatorItems] : n \in 1..MaxItems}

\* totals in steps of 0.001
ValidatorInputs ==
    {Payload(10 * t, its) : t \in 0..MaxTotal, its \in ValidatorItemLists}

Validate ==
    /\ v_out = NoCall
    /\ v_in # NoCall
    /\ v_out' = _parse_and_validate_response(v_in)
    /\ UNCHANGED << store, pc, pending_receipts, idx, processed_count,
                    structured_data, llm_calls, raw_response, write_failed,
                    writer_result, fetch_ok, claim_writes,
                    writer_calls, api, v_in >>

\* lines of 1 x 0.001 with the category left out, ...
LineWithoutCategory == [name |-> "Lait", quantity |-> 1, price |-> 10]

\* ... with a category of the taxonomy or with one outside it
LineWithCategory(c) ==
    [name |-> "Lait", quantity |-> 1, price |-> 10, category |-> c]

CategoryLines ==
    {LineWithoutCategory}
        \cup {LineWithCategory(c) : c \in Categories \cup {"Boissons"}}

\* payloads of such lines whose total is the sum of the lines
CategoryInputs ==
    UNION {{Payload(10 * n, its) : its \in [1..n -> CategoryLines]} : n \in 1..MaxItems}

\* one-line payloads with a name that may be empty, a quantity from -1, a
\* unit price and a total from -0.001, and a category that may be left out
SchemaInputs ==
    {[merchant |-> "Carrefour", receipt_date |-> "2024-03-01", total_amount |-> 10 * t,
      items |-> << line @@ [name |-> n, quantity |-> q, price |-> 10 * p] >>] :
        t \in -1..MaxQuantity, n \in {"", "Lait"}, q \in -1..MaxQuantity,
        p \in -1..1, line \in {<< >>, [category |-> "Loisirs"]}}

----------------------------------------------------------------------------
(* The extraction client applied to bounded service outcomes *)

\* the service raises, answers without a tool call, or answers with a tool
\* call of either name whose arguments are one of the responses above or a
\* one-line payload with any total
ClientInputs ==
    ServiceOutcomes
        \cup {ToolCall(n, Payload(10 * t, << LaitUnit >>)) :
                 n \in ToolNames, t \in 0..MaxTotal}

CallClient ==
    /\ v_out = NoCall
    /\ v_in # NoCall
    /\ v_out' = _call_llm_api(v_in)
    /\ UNCHANGED << store, pc, pending_receipts, idx, processed_count,
                    structured_data, llm_calls, raw_response, write_failed,
                    writer_result, fetch_ok, claim_writes,
                    writer_calls, api, v_in >>

----------------------------------------------------------------------------
(* The price normalizer applied to bounded line amounts *)

\* line amounts from 0 in units of 0.0001, quantities from 1
NormalizerInputs ==
    {[line_price |-> l, quantity |-> q] : l \in 0..MaxLineAmount, q \in 1..MaxQuantity}

\* lines 187-197: the "price" of the row built for one line
Normalize ==
    /\ v_out = NoCall
    /\ v_in # NoCall
    /\ v_out' = [price |-> unit_price(v_in.line_price, v_in.quantity)]
    /\ UNCHANGED << store, pc, pending_receipts, idx, processed_count,
                    structured_data, llm_calls, raw_response, write_failed,
                    writer_result, fetch_ok, claim_writes,
                    writer_calls, api, v_in >>

----------------------------------------------------------------------------
(* Specifications *)

\* a receipt inserted by generate_clean_data.py: processed, with its fields and items
SeedFields == [merchant |-> "Fnac", receipt_date |-> "2024-03-01",
               total_amount |-> 50000]

SeedItems(r) == << [receipt_id |-> r, name |-> "Livre", quantity |-> 1,
                    price |-> 50000, category |-> "Loisirs"] >>

\* The store holds receipts awaiting processing (generate_more_ocr_input.py:
\* status pending, nothing else set) and receipts inserted already processed.
InitStore ==
    /\ status \in [Receipts -> {PENDING, PROCESSED}]
    /\ fields = [r \in Receipts |-> IF status[r] = PROCESSED THEN SeedFields ELSE None]
    /\ items = [r \in Receipts |-> IF status[r] = PROCESSED THEN SeedItems(r) ELSE << >>]

InitRuns ==
    /\ pc = [run \in Runs |-> "start"]
    /\ pending_receipts = [run \in Runs |-> << >>]
    /\ idx = [run \in Runs |-> 0]
    /\ processed_count = [run \in Runs |-> 0]
    /\ structured_data = [run \in Runs |-> None]
    /\ llm_calls = [run \in Runs |-> [r \in Receipts |-> 0]]
    /\ raw_response = [run \in Runs |-> [r \in Receipts |-> NoCall]]
    /\ write_failed = [run \in Runs |-> {}]
    /\ writer_result = [run \in Runs |-> [r \in Receipts |-> "NoCall"]]
    /\ fetch_ok = [run \in Runs |-> "NoCall"]
    /\ claim_writes = [run \in Runs |-> [r \in Receipts |-> 0]]
    /\ writer_calls = [run \in Runs |-> [r \in Receipts |-> 0]]

\* no request to the trigger endpoint has arrived
NoRequest == [phase |-> "none", tasks |-> 0, response |-> NoCall]

Init ==
    /\ InitStore
    /\ InitRuns
    /\ v_in = NoCall
    /\ v_out = NoCall
    /\ api = NoRequest

\* one batch run, nothing else writing to the store
Next == process_pending_receipts(MainRun)

Spec == Init /\ [][Next]_vars

\* two batch runs triggered concurrently, and the dashboard's retry
NextConc ==
    \/ \E run \in Runs : process_pending_receipts(run)
    \/ RetryAllFailed

\* the receipts above ConcReceipts are already processed
InitConc ==
    /\ Init
    /\ \A r \in Receipts : r > ConcReceipts => status[r] = PROCESSED

SpecConc == InitConc /\ [][NextConc]_vars

\* the store's requests (lines 232-239, 258-260, 283-285 and _update_database)
\* are synchronous calls: the run goes through them whenever it is at one
StoreStep(run) ==
    \/ Fetch(run)
    \/ Claim(run)
    \/ DbUpdate(run)
    \/ DbItems(run)
    \/ DbRollback(run)
    \/ Handler(run)

\* one batch run whose store requests always return, while the awaited
\* extraction call (line 266, no timeout around it) may never return
SpecHang == Init /\ [][Next]_vars /\ WF_vars(StoreStep(MainRun))

\* one batch run while the dashboard's retry resets failed receipts; the store
\* holds pending receipts, receipts an earlier run left failed and receipts an
\* earlier run that stopped left in processing (those above RetryReceipts are
\* of the last kind)
InitRetry ==
    /\ status \in [Receipts -> {PENDING, FAILED, PROCESSING}]
    /\ \A r \in Receipts : r > RetryReceipts => status[r] = PROCESSING
    /\ fields = [r \in Receipts |-> None]
    /\ items = [r \in Receipts |-> << >>]
    /\ InitRuns
    /\ v_in = NoCall
    /\ v_out = NoCall
    /\ api = NoRequest

NextRetry ==
    \/ process_pending_receipts(MainRun)
    \/ RetryAllFailed

SpecRetry == InitRetry /\ [][NextRetry]_vars

InitValidator ==
    /\ status = [r \in Receipts |-> PENDING]
    /\ fields = [r \in Receipts |-> None]
    /\ items = [r \in Receipts |-> << >>]
    /\ InitRuns
    /\ v_in \in ValidatorInputs
    /\ v_out = NoCall
    /\ api = NoRequest

NextValidator == Validate

SpecValidator == InitValidator /\ [][NextValidator]_vars

\* one request to the trigger endpoint and the run it starts
NextTrigger ==
    \/ trigger_processing
    \/ \E run \in Runs : BackgroundRun(run)

SpecTrigger == Init /\ [][NextTrigger]_vars

\* the validator applied once to one payload of categorised lines
InitCategory ==
    /\ status = [r \in Receipts |-> PENDING]
    /\ fields = [r \in Receipts |-> None]
    /\ items = [r \in Receipts |-> << >>]
    /\ InitRuns
    /\ v_in \in CategoryInputs
    /\ v_out = NoCall
    /\ api = NoRequest

SpecCategory == InitCategory /\ [][NextValidator]_vars

\* _call_llm_api applied once to one service outcome
InitClient ==
    /\ status = [r \in Receipts |-> PENDING]
    /\ fields = [r \in Receipts |-> None]
    /\ items = [r \in Receipts |-> << >>]
    /\ InitRuns
    /\ v_in \in ClientInputs
    /\ v_out = NoCall
    /\ api = NoRequest

NextClient == CallClient

SpecClient == InitClient /\ [][NextClient]_vars

\* the unit price computed once for one line amount and quantity
InitNormalizer ==
    /\ status = [r \in Receipts |-> PENDING]
    /\ fields = [r \in Receipts |-> None]
    /\ items = [r \in Receipts |-> << >>]
    /\ InitRuns
    /\ v_in \in NormalizerInputs
    /\ v_out = NoCall
    /\ api = NoRequest

NextNormalizer == Normalize

SpecNormalizer == InitNormalizer /\ [][NextNormalizer]_vars

----------------------------------------------------------------------------
(* Properties *)

\* the receipts of a run's fetched list
Fetched(run) == {pending_receipts[run][i] : i \in 1..Len(pending_receipts[run])}

\* the receipts a run has finished with: the loop has moved past them
Left(run) ==
    {pending_receipts[run][i] :
        i \in 1..(IF pc[run] = "finished" THEN Len(pending_receipts[run])
                  ELSE idx[run] - 1)}

\* the service's answer was a payload and the validator returned a model
Accepted(resp) ==
    /\ resp \in RawPayloads
    /\ _parse_and_validate_response(resp) # None

\* the receipts for which the writer returned True to a run
Succeeded(run) == {r \in Receipts : writer_result[run][r] = "True"}

\* a line's amount: the line_price key when the payload has it, else
\* price * quantity as the validator reads the line
LineAmount(raw) ==
    IF "line_price" \in DOMAIN raw THEN raw.line_price ELSE raw.price * raw.quantity

RECURSIVE LineSum(_)
LineSum(its) ==
    IF its = << >> THEN 0
    ELSE Head(its).price * Head(its).quantity + LineSum(Tail(its))

\* C1 as stated: every change of a receipt's status by a step of the batch run
\* is pending -> processing, processing -> processed or processing -> failed.
C1_Original ==
    [][\A r \in Receipts :
          status'[r] # status[r] =>
              << status[r], status'[r] >> \in
                  {<< PENDING, PROCESSING >>, << PROCESSING, PROCESSED >>,
                   << PROCESSING, FAILED >>}]_vars

\* C1 amended: every change of a receipt's status by a step of a single batch
\* run is pending -> processing, processing -> processed, processing -> failed,
\* processed -> failed (the writer's compensating write, or the loop's except
\* branch after it) or pending -> failed (the loop's except branch after a claim
\* write that raised); no step changes processed or failed to processing.
C1_StatusEdges ==
    [][\A r \in Receipts :
          status'[r] # status[r] =>
              << status[r], status'[r] >> \in
                  {<< PENDING, PROCESSING >>, << PROCESSING, PROCESSED >>,
                   << PROCESSING, FAILED >>, << PROCESSED, FAILED >>,
                   << PENDING, FAILED >>}]_vars

\* a receipt the writer took to processed and then back to failed
C1_Compensated ==
    \E r \in Receipts :
        /\ writer_result[MainRun][r] = "False"
        /\ r \notin write_failed[MainRun]
        /\ status[r] = FAILED
        /\ fields[r] # None

\* C2 as stated, on the interleavings it is about: when both runs have gone
\* through the same receipt, each with an accepted extraction and no store
\* error, the receipt holds the item rows of both, twice its lines.
C2_DuplicateItems ==
    \A r \in Receipts :
        (\A run \in Runs :
            /\ r \in Left(run)
            /\ Accepted(raw_response[run][r])
            /\ r \notin write_failed[run])
        => Len(items[r]) = Len(raw_response["A"][r].items)
                           + Len(raw_response["B"][r].items)

\* C3 as stated: when a run in which the extraction call failed for a receipt
\* (None or an empty response) reaches its summary without any store error,
\* every fetched receipt whose extraction was accepted is processed, and
\* succeeded is the number fetched minus the number whose extraction failed or
\* was rejected.
C3_OthersProcessed ==
    (/\ pc[MainRun] = "finished"
     /\ write_failed[MainRun] = {}
     /\ \E r \in Fetched(MainRun) : Falsy(raw_response[MainRun][r])) =>
        /\ \A r \in Fetched(MainRun) :
              Accepted(raw_response[MainRun][r]) => status[r] = PROCESSED
        /\ processed_count[MainRun] =
              Len(pending_receipts[MainRun])
              - Cardinality({r \in Fetched(MainRun) :
                                ~Accepted(raw_response[MainRun][r])})

\* C4 as stated: whatever step fails for a receipt, the run is never ended by
\* an exception before it has gone through its fetched list.
C4_NeverAborted == pc[MainRun] # "aborted"

\* C5: once the fetch of a run has failed, the run has returned and no step
\* changes a status, a receipt's fields, an item row or the count of extraction
\* calls.
C5_FetchFailureTouchesNothing ==
    [][fetch_ok'[MainRun] = "error" =>
          /\ pc'[MainRun] = "fetch_failed"
          /\ UNCHANGED << status, fields, items, llm_calls >>]_vars

\* the fetch has failed while a receipt awaits processing
C5_FetchFailed ==
    /\ fetch_ok[MainRun] = "error"
    /\ \E r \in Receipts : status[r] = PENDING

\* the rows C6 expects for an extraction: one per line, priced amount / quantity
C6_ExpectedItems(r, raw) ==
    [i \in 1..Len(raw.items) |->
        [receipt_id |-> r,
         name |-> raw.items[i].name,
         quantity |-> raw.items[i].quantity,
         price |-> unit_price(LineAmount(raw.items[i]), raw.items[i].quantity),
         category |-> raw.items[i].category]]

\* C6 as stated: a receipt the run has gone through with an accepted extraction
\* and no store error is processed, holds the extraction's merchant, date and
\* total and one item row per line priced amount / quantity, and is counted.
C6_ValidPersisted ==
    \A r \in Left(MainRun) :
        (Accepted(raw_response[MainRun][r]) /\ r \notin write_failed[MainRun]) =>
            /\ status[r] = PROCESSED
            /\ fields[r] = update_data(raw_response[MainRun][r])
            /\ items[r] = C6_ExpectedItems(r, raw_response[MainRun][r])
            /\ r \in Succeeded(MainRun)

\* a structurally valid payload whose lines do not add up to its total
C7_Mismatch(raw) ==
    /\ FieldsValid(raw)
    /\ Abs(LineSum(raw.items) - raw.total_amount) > 200

\* C7: a payload whose line sum differs from its total by more than 0.02 is
\* rejected by the validator, the writer is never called for its receipt, the
\* receipt is failed with no field set once the run has gone past it, and
\* succeeded counts only receipts for which the writer returned True.
C7_MismatchLeftFailed ==
    /\ processed_count[MainRun] = Cardinality(Succeeded(MainRun))
    /\ \A r \in Receipts :
          (raw_response[MainRun][r] \in RawPayloads
           /\ C7_Mismatch(raw_response[MainRun][r])) =>
              /\ _parse_and_validate_response(raw_response[MainRun][r]) = None
              /\ writer_result[MainRun][r] = "NoCall"
              /\ r \in Left(MainRun) => (status[r] = FAILED /\ fields[r] = None)

\* the run has gone past a receipt for which total 20.00 came with lines of 15.00
C7_MismatchSeen ==
    \E r \in Left(MainRun) :
        /\ raw_response[MainRun][r] = P_MISMATCH
        /\ status[r] = FAILED

\* C8: the validator accepts a structurally valid payload if and only if the
\* sum of its lines (price * quantity, as the validator reads a line) differs
\* from total_amount by at most 0.02.
C8_AcceptIffWithinTolerance ==
    v_out # NoCall =>
        ((v_out # None) <=> (Abs(LineSum(v_in.items) - v_in.total_amount) <= 200))

\* a payload whose lines differ from the total by exactly 0.02 was accepted
C8_BoundaryAccepted ==
    /\ v_out \notin {NoCall, None}
    /\ Abs(LineSum(v_in.items) - v_in.total_amount) = 200

\* C9: when the writer returns False although no store write raised (the
\* receipt update succeeded and building or inserting the items failed), the
\* receipt is failed, keeps the merchant, date and total of the extraction, has
\* no item row, and is not counted.
C9_InsertFailureCompensated ==
    /\ processed_count[MainRun] = Cardinality(Succeeded(MainRun))
    /\ \A r \in Receipts :
          (writer_result[MainRun][r] = "False" /\ r \notin write_failed[MainRun]) =>
              /\ status[r] = FAILED
              /\ Accepted(raw_response[MainRun][r])
              /\ fields[r] = update_data(raw_response[MainRun][r])
              /\ items[r] = << >>

\* the writer returned False for a receipt whose update had been written
C9_WriterReturnedFalse ==
    \E r \in Receipts :
        /\ writer_result[MainRun][r] = "False"
        /\ r \notin write_failed[MainRun]
        /\ fields[r] # None

\* C10 as stated: a run that comes to claim a receipt whose status is not
\* pending leaves the status as it is and makes no extraction call for it.
C10_ClaimOnlyPending ==
    [][\A run \in Runs :
          (pc[run] = "claim" /\ pc'[run] # "claim"
           /\ status[Current(run)] # PENDING) =>
              /\ status'[Current(run)] = status[Current(run)]
              /\ pc'[run] # "llm"]_vars

\* C11: within one batch run the fetched list names no receipt twice, and for
\* every receipt the run issues at most one claim write, makes at most one
\* extraction call and calls the writer at most once.
C11_AtMostOnce ==
    /\ \A i, j \in 1..Len(pending_receipts[MainRun]) :
          pending_receipts[MainRun][i] = pending_receipts[MainRun][j] => i = j
    /\ \A r \in Receipts :
          /\ claim_writes[MainRun][r] <= 1
          /\ llm_calls[MainRun][r] <= 1
          /\ writer_calls[MainRun][r] <= 1

\* the run has finished a batch of two receipts or more, each claimed once, and
\* one of them went through the extraction call and the writer
C11_BatchDone ==
    /\ pc[MainRun] = "finished"
    /\ Len(pending_receipts[MainRun]) >= 2
    /\ \A r \in Fetched(MainRun) : claim_writes[MainRun][r] = 1
    /\ \E r \in Fetched(MainRun) :
          llm_calls[MainRun][r] = 1 /\ writer_calls[MainRun][r] = 1

\* C12: a run takes its receipts in fetch order, one at a time: what it has
\* claimed or sent to the service is a prefix of the fetched list, every
\* receipt before the one it is at was claimed once and has been left processed
\* or failed, and only the receipt it is at can be in status processing.
C12_Sequential ==
    \A i \in 1..Len(pending_receipts[MainRun]) :
        LET r == pending_receipts[MainRun][i]
        IN  /\ (claim_writes[MainRun][r] > 0 \/ llm_calls[MainRun][r] > 0) =>
                    i <= idx[MainRun]
            /\ i < idx[MainRun] =>
                    /\ claim_writes[MainRun][r] = 1
                    /\ status[r] \in {PROCESSED, FAILED}
            /\ status[r] = PROCESSING =>
                    i = idx[MainRun] /\ pc[MainRun] # "claim"

\* the run holds its second receipt in processing after the first one's
\* extraction call returned and the first one was left failed
C12_SecondInProcessing ==
    /\ idx[MainRun] = 2
    /\ pc[MainRun] = "llm"
    /\ status[pending_receipts[MainRun][2]] = PROCESSING
    /\ llm_calls[MainRun][pending_receipts[MainRun][1]] = 1
    /\ status[pending_receipts[MainRun][1]] = FAILED

\* C13 as stated: once a run is over, whether it reached its summary or not, no
\* receipt of its fetched set that it handled is still in processing, and after
\* the summary none is still pending either.
C13_NoneLeftProcessing ==
    /\ pc[MainRun] \in {"finished", "aborted"} =>
          \A r \in Fetched(MainRun) : status[r] # PROCESSING
    /\ pc[MainRun] = "finished" =>
          \A r \in Fetched(MainRun) : status[r] \in {PROCESSED, FAILED}

\* C14 as stated: once a receipt has status processed, no step of any batch
\* run, the same one or a concurrent one, changes its status again. The write
\* of failed by which the writer undoes its own receipt update is not held
\* against the claim here: the status must never go back to pending or
\* processing.
C14_ProcessedTerminal ==
    [][\A r \in Receipts :
          status[r] = PROCESSED => status'[r] \in {PROCESSED, FAILED}]_vars

\* C15: _call_llm_api never raises; when the service raises, answers without
\* a tool call or answers with a tool call of another name it returns None;
\* when the tool call has the expected name it returns the call's arguments;
\* and every invocation makes exactly one service call.
C15_FailureAsValue ==
    v_out # NoCall =>
        /\ ~ v_out.raised
        /\ v_out.service_calls = 1
        /\ v_in.kind = "error" => v_out.value = None
        /\ (v_in.kind = "response" /\ v_in.tool_calls = << >>) => v_out.value = None
        /\ (v_in.kind = "response" /\ v_in.tool_calls # << >>) =>
              v_out.value = IF v_in.tool_calls[1].name = tool_name
                            THEN v_in.tool_calls[1].arguments
                            ELSE None

\* the client has returned None for an answer that carried no tool call
C15_NoToolCallGivesNone ==
    /\ v_in = NoToolCall
    /\ v_out # NoCall
    /\ v_out.value = None

C17_SummaryCounts ==
    /\ processed_count[MainRun] = Cardinality(Succeeded(MainRun))
    /\ processed_count[MainRun] <= Len(pending_receipts[MainRun])
    /\ pc[MainRun] = "finished" =>
          /\ Len(pending_receipts[MainRun]) = Cardinality(Fetched(MainRun))
          /\ Fetched(MainRun) = {r \in Receipts : claim_writes[MainRun][r] = 1}
          /\ processed_count[MainRun] =
                Cardinality({r \in Fetched(MainRun) : status[r] = PROCESSED})

\* the run has finished a batch of two receipts or more in which the writer was
\* called and the service failed at least once
C17_SummaryReached ==
    /\ pc[MainRun] = "finished"
    /\ Len(pending_receipts[MainRun]) >= 2
    /\ \E r \in Fetched(MainRun) : writer_result[MainRun][r] # "NoCall"
    /\ \E r \in Fetched(MainRun) : raw_response[MainRun][r] = None

\* C18: a run fetches once, at its start: the fetch takes exactly the receipts
\* that are pending at that moment, the fetched list never changes afterwards
\* and the run never goes back to its start; and the run issues a claim write,
\* an extraction call or a writer call only for a receipt of that list, so a
\* receipt that becomes pending after the fetch is never taken up.
C18_FetchedOnce ==
    [][/\ pc'[MainRun] = "start" => pc[MainRun] = "start"
       /\ (pc[MainRun] = "start" /\ fetch_ok'[MainRun] = "ok") =>
              Fetched(MainRun)' = {r \in Receipts : status[r] = PENDING}
       /\ pc[MainRun] # "start" =>
              pending_receipts'[MainRun] = pending_receipts[MainRun]
       /\ \A r \in Receipts :
              (\/ claim_writes'[MainRun][r] # claim_writes[MainRun][r]
               \/ llm_calls'[MainRun][r] # llm_calls[MainRun][r]
               \/ writer_calls'[MainRun][r] # writer_calls[MainRun][r]) =>
                  r \in Fetched(MainRun)]_vars

\* the run has finished a batch while a receipt that was reset to pending
\* after the fetch is still pending, never taken up
C18_LatePendingUntouched ==
    /\ pc[MainRun] = "finished"
    /\ \E r \in Receipts \ Fetched(MainRun) :
          /\ status[r] = PENDING
          /\ claim_writes[MainRun][r] = 0
          /\ llm_calls[MainRun][r] = 0

\* no run is inside _update_database for receipt r
Quiet(r) ==
    \A run \in Runs :
        pc[run] \in {"db_update", "db_items", "db_rollback"} => Current(run) # r

\* its is rows followed by zero or more further rows
Extends(its, rows) ==
    /\ Len(rows) <= Len(its)
    /\ \A i \in 1..Len(rows) : its[i] = rows[i]

\* C19: item rows come into being only in the writer's insert for their parent
\* receipt, whose status is processed at that moment; a receipt for which no
\* writer call is in progress has item rows only if its status is processed;
\* and a row, once there, is never changed or removed by a run.
C19_ItemsOnlyOfProcessed ==
    [][\A r \in Receipts :
          /\ (items[r] # << >> /\ Quiet(r)) => status[r] = PROCESSED
          /\ (items'[r] # << >> /\ Quiet(r)') => status'[r] = PROCESSED
          /\ Extends(items'[r], items[r])
          /\ items'[r] # items[r] =>
                /\ status'[r] = PROCESSED
                /\ \E run \in Runs : pc[run] = "db_items" /\ Current(run) = r
                /\ \A i \in 1..Len(items'[r]) : items'[r][i].receipt_id = r]_vars

\* a run has finished; a processed receipt has its rows, and a receipt for
\* which the run called the writer is failed and has none
C19_RowsOnlyWhereProcessed ==
    \E run \in Runs :
        /\ pc[run] = "finished"
        /\ \E r \in Receipts : items[r] # << >> /\ status[r] = PROCESSED
        /\ \E r \in Fetched(run) :
              /\ writer_calls[run][r] = 1
              /\ status[r] = FAILED
              /\ items[r] = << >>

\* C20 as stated: a receipt whose extraction has no items is left processed
\* with zero item rows and is counted as succeeded.
C20_Original ==
    \A r \in Left(MainRun) :
        (raw_response[MainRun][r] = P_EMPTY /\ r \notin write_failed[MainRun]) =>
            /\ status[r] = PROCESSED
            /\ items[r] = << >>
            /\ r \in Succeeded(MainRun)

\* C20: an extraction without items is rejected by the validator, since the
\* schema wants at least one item: the writer is not called for the receipt,
\* which keeps no extracted field and no item row, is not counted, and is
\* left failed once the except branch's write went through. The writer itself
\* would raise nothing on an empty list of items and would insert nothing.
C20_EmptyRejected ==
    /\ _parse_and_validate_response(P_EMPTY) = None
    /\ ~ PrepareRaises(StructuredReceiptData(P_EMPTY))
    /\ items_to_insert(1, StructuredReceiptData(P_EMPTY)) = << >>
    /\ \A r \in Receipts :
          raw_response[MainRun][r] = P_EMPTY =>
              /\ writer_calls[MainRun][r] = 0
              /\ writer_result[MainRun][r] = "NoCall"
              /\ r \notin Succeeded(MainRun)
              /\ fields[r] = None
              /\ items[r] = << >>
              /\ (r \in Left(MainRun) /\ r \notin write_failed[MainRun]) =>
                    status[r] = FAILED

\* the run has gone past a receipt whose extraction had no items
C20_EmptySeen ==
    \E r \in Left(MainRun) :
        /\ raw_response[MainRun][r] = P_EMPTY
        /\ status[r] = FAILED

\* C21 as stated: for every accepted extraction, the receipt the run has left
\* holds exactly one item row per extracted line, in the order of the lines
\* (so that no two lines are merged, whatever their names).
C21_OneRowPerLine ==
    \A r \in Left(MainRun) :
        (Accepted(raw_response[MainRun][r]) /\ r \notin write_failed[MainRun]) =>
            /\ Len(items[r]) = Len(raw_response[MainRun][r].items)
            /\ \A i \in 1..Len(items[r]) :
                  /\ items[r][i].name = raw_response[MainRun][r].items[i].name
                  /\ items[r][i].quantity = raw_response[MainRun][r].items[i].quantity

\* C22: no step of a batch run adds or removes a receipt id, no step removes
\* or changes an item row that exists, and a receipt outside the run's fetched
\* list keeps its status, its fields and its item rows.
C22_Frame ==
    [][/\ DOMAIN status' = DOMAIN status
       /\ DOMAIN fields' = DOMAIN fields
       /\ DOMAIN items' = DOMAIN items
       /\ \A r \in Receipts : Extends(items'[r], items[r])
       /\ \A r \in Receipts \ Fetched(MainRun)' :
              /\ status'[r] = status[r]
              /\ fields'[r] = fields[r]
              /\ items'[r] = items[r]]_vars

\* the run has finished and has written to a receipt of its list, while a
\* processed receipt outside the list still has its fields and its rows
C22_OthersKept ==
    /\ pc[MainRun] = "finished"
    /\ \E r \in Fetched(MainRun) : status[r] = FAILED /\ fields[r] # None
    /\ \E r \in Receipts \ Fetched(MainRun) :
          /\ status[r] = PROCESSED
          /\ fields[r] = SeedFields
          /\ items[r] = SeedItems(r)

\* C23: a request queues exactly one run, and no other run is started; as
\* long as the response has not been sent the run has done nothing, not even
\* its fetch; and the response is 202 with the same message from then on,
\* whether the run's fetch fails, every receipt fails, or the run stops.
C23_AnswerBeforeRun ==
    /\ api.tasks = IF api.phase = "none" THEN 0 ELSE 1
    /\ \A run \in Runs \ {MainRun} : pc[run] = "start"
    /\ api.phase # "responded" =>
          /\ pc[MainRun] = "start"
          /\ \A r \in Receipts : claim_writes[MainRun][r] = 0
    /\ api.phase = "responded" =>
          api.response =
              [status_code |-> 202,
               body |-> [message |-> "Receipt processing started in the background."]]

\* the run behind an answered request has finished a batch of two receipts or
\* more, all of them failed
C23_AnsweredThenAllFailed ==
    /\ api.phase = "responded"
    /\ api.response.status_code = 202
    /\ pc[MainRun] = "finished"
    /\ Len(pending_receipts[MainRun]) >= 2
    /\ \A r \in Fetched(MainRun) : status[r] = FAILED

\* C24: an extraction with a line whose category is outside the taxonomy is
\* rejected as a whole; otherwise it is accepted, and each validated line has
\* the category the line gave, or Autre when the line gave none.
C24_CategoryHandling ==
    v_out # NoCall =>
        IF \E i \in 1..Len(v_in.items) :
               /\ "category" \in DOMAIN v_in.items[i]
               /\ v_in.items[i].category \notin Categories
        THEN v_out = None
        ELSE /\ v_out # None
             /\ Len(v_out.items) = Len(v_in.items)
             /\ \A i \in 1..Len(v_in.items) :
                   v_out.items[i].category =
                       IF "category" \in DOMAIN v_in.items[i]
                       THEN v_in.items[i].category
                       ELSE "Autre"

\* an accepted extraction whose first line gave no category and whose second
\* line gave Loisirs
C24_DefaultAndKept ==
    /\ v_out # NoCall
    /\ v_out # None
    /\ Len(v_in.items) = 2
    /\ "category" \notin DOMAIN v_in.items[1]
    /\ v_out.items[1].category = "Autre"
    /\ v_out.items[2].category = "Loisirs"

\* the constraints C25 names, on a validated extraction
C25_Constraints(data) ==
    /\ data.total_amount >= 0
    /\ \A i \in 1..Len(data.items) :
          /\ data.items[i].quantity >= 1
          /\ data.items[i].price >= 0
          /\ data.items[i].name # ""
          /\ data.items[i].category \in Categories

\* over the one-line payloads: what the validator accepts meets the
\* constraints, and a quantity below 1 or a negative price or total is rejected
C25_SchemaHolds ==
    \A raw \in SchemaInputs :
        /\ _parse_and_validate_response(raw) # None =>
              C25_Constraints(_parse_and_validate_response(raw))
        /\ (\/ raw.items[1].quantity < 1
            \/ raw.items[1].price < 0
            \/ raw.total_amount < 0) => _parse_and_validate_response(raw) = None

\* C25: every value accepted by the validator has quantity >= 1, unit price
\* >= 0, total >= 0, a non-empty name and a category of the taxonomy; so has
\* what the run hands to the writer, every total the store holds and every
\* item row; and a receipt whose extraction was rejected, as one with quantity
\* 0 is, is left failed with no field written and no item row.
C25_AcceptedValuesValid ==
    /\ C25_SchemaHolds
    /\ _parse_and_validate_response(P_ZERO_QTY) = None
    /\ structured_data[MainRun] # None => C25_Constraints(structured_data[MainRun])
    /\ \A r \in Receipts :
          /\ fields[r] # None => fields[r].total_amount >= 0
          /\ \A i \in 1..Len(items[r]) :
                /\ items[r][i].quantity >= 1
                /\ items[r][i].price >= 0
                /\ items[r][i].name # ""
                /\ items[r][i].category \in Categories
    /\ \A r \in Left(MainRun) :
          (/\ raw_response[MainRun][r] \in RawPayloads
           /\ _parse_and_validate_response(raw_response[MainRun][r]) = None
           /\ r \notin write_failed[MainRun]) =>
              /\ status[r] = FAILED
              /\ fields[r] = None
              /\ items[r] = << >>

\* the run has left failed a receipt whose extraction had a line of quantity 0
C25_ZeroQuantitySeen ==
    \E r \in Left(MainRun) :
        /\ raw_response[MainRun][r] = P_ZERO_QTY
        /\ status[r] = FAILED

\* C26: for a receipt for which the writer was not called, so that its attempt
\* ended at the extraction client or at validation, no step changes merchant,
\* date, total or item rows; its status only goes pending -> processing ->
\* failed (straight from pending to failed only when the claim write itself
\* raised); and once the run has left it after its extraction call, it is
\* failed with no field set.
C26_FailureTouchesOnlyStatus ==
    [][\A r \in Receipts :
          writer_calls'[MainRun][r] = 0 =>
              /\ fields'[r] = fields[r]
              /\ items'[r] = items[r]
              /\ status'[r] # status[r] =>
                    \/ << status[r], status'[r] >> \in
                           {<< "pending", "processing" >>, << "processing", "failed" >>}
                    \/ /\ << status[r], status'[r] >> = << "pending", "failed" >>
                       /\ r \in write_failed'[MainRun]
              /\ (/\ r \in Left(MainRun)'
                  /\ llm_calls'[MainRun][r] = 1
                  /\ r \notin write_failed'[MainRun]) =>
                    /\ status'[r] = "failed"
                    /\ fields'[r] = None]_vars

\* the run has left two receipts, one after the service gave no answer and one
\* after the validator rejected the answer, both failed with nothing written
C26_BothFailuresSeen ==
    \E r1, r2 \in Left(MainRun) :
        /\ raw_response[MainRun][r1] = None
        /\ raw_response[MainRun][r2] \in RawPayloads
        /\ writer_calls[MainRun][r2] = 0
        /\ status[r1] = FAILED /\ status[r2] = FAILED
        /\ fields[r1] = None /\ fields[r2] = None
        /\ items[r1] = << >> /\ items[r2] = << >>

\* C27: a receipt with status failed is never claimed by a later batch run
\* unless its status was first reset to pending from outside: the run claims a
\* receipt only when it is pending and was pending at the run's fetch, and the
\* only step that takes a receipt out of failed is the dashboard's retry, which
\* resets exactly the failed receipts to pending and leaves every receipt in
\* pending, processing or processed, and everything else, as it was.
C27_FailedClaimedOnlyAfterReset ==
    [][/\ (pc[MainRun] = "start" /\ fetch_ok'[MainRun] = "ok") =>
              \A r \in Fetched(MainRun)' : status[r] = PENDING
       /\ \A r \in Receipts :
              claim_writes'[MainRun][r] # claim_writes[MainRun][r] =>
                  /\ r \in Fetched(MainRun)
                  /\ status[r] = PENDING
       /\ (\E r \in Receipts : status[r] = FAILED /\ status'[r] # FAILED) =>
              /\ status' = [r \in Receipts |-> IF status[r] = FAILED THEN PENDING
                                               ELSE status[r]]
              /\ UNCHANGED << fields, items, pc, pending_receipts, idx,
                              processed_count, llm_calls, claim_writes,
                              writer_calls >>]_vars

\* the run has finished; a receipt it claimed once and left failed has been
\* reset to pending by the retry and was not claimed again by this run, while a
\* receipt that was in processing is as it was
C27_ResetAfterRunNotReclaimed ==
    /\ pc[MainRun] = "finished"
    /\ \E r \in Fetched(MainRun) :
          /\ status[r] = PENDING
          /\ claim_writes[MainRun][r] = 1
    /\ \E r \in Receipts \ Fetched(MainRun) : status[r] = PROCESSING

\* C30: a receipt that is in processing when the run fetches is not selected,
\* and a receipt in processing that is not in the run's list, or that the run
\* left in processing when it stopped, is never claimed or written by the run
\* nor reset by the dashboard's retry: its status, fields, item rows and the
\* run's counters for it stay as they are at every step.
C30_ProcessingNeverTaken ==
    [][\A r \in Receipts :
          /\ (pc[MainRun] = "start" /\ status[r] = PROCESSING) =>
                 r \notin Fetched(MainRun)'
          /\ (/\ status[r] = PROCESSING
              /\ r \notin Fetched(MainRun)' \/ pc[MainRun] = "aborted") =>
                 /\ status'[r] = PROCESSING
                 /\ fields'[r] = fields[r]
                 /\ items'[r] = items[r]
                 /\ claim_writes'[MainRun][r] = claim_writes[MainRun][r]
                 /\ llm_calls'[MainRun][r] = llm_calls[MainRun][r]
                 /\ writer_calls'[MainRun][r] = writer_calls[MainRun][r]]_vars

\* the run has finished a batch and the retry has reset a failed receipt, which
\* is pending outside the run's list, while a receipt that was in processing
\* at the fetch is still in processing, never claimed
C30_StillProcessingAfterRunAndRetry ==
    /\ pc[MainRun] = "finished"
    /\ \E r1, r2 \in Receipts \ Fetched(MainRun) :
          /\ status[r1] = PROCESSING
          /\ claim_writes[MainRun][r1] = 0
          /\ fields[r1] = None
          /\ status[r2] = PENDING

\* C29 as stated: when the claim write of a receipt has failed (the receipt is
\* among the run's failed writes before any extraction call for it), the run
\* makes no extraction call and no call of the writer for it, does not count it
\* as succeeded, and goes on with the next receipt: it is never stopped at that
\* receipt.
C29_ClaimFailureSkipsReceipt ==
    \A r \in Fetched(MainRun) :
        (r \in write_failed[MainRun] /\ llm_calls[MainRun][r] = 0) =>
            /\ writer_calls[MainRun][r] = 0
            /\ r \notin Succeeded(MainRun)
            /\ pc[MainRun] \in {"llm", "db_update", "db_items", "db_rollback"} =>
                  Current(MainRun) # r
            /\ ~(pc[MainRun] = "aborted" /\ Current(MainRun) = r)

\* the run has returned or an exception has ended it
RunOver(run) == pc[run] \in {"finished", "aborted", "fetch_failed", "no_pending"}

\* C28: if every extraction call returns, the run is eventually over; while an
\* extraction call is awaited, the receipt it is for is in processing and every
\* later receipt of the fetched list is still pending, never claimed by the
\* run; and the only step that takes the run out of the await is the return of
\* that call: nothing times it out or cancels it.
C28_HangBlocksBatch ==
    /\ ([](pc[MainRun] = "llm" => <>(pc[MainRun] # "llm"))) => <>RunOver(MainRun)
    /\ [](pc[MainRun] = "llm" =>
             /\ status[Current(MainRun)] = PROCESSING
             /\ \A i \in (idx[MainRun] + 1)..Len(pending_receipts[MainRun]) :
                   /\ claim_writes[MainRun][pending_receipts[MainRun][i]] = 0
                   /\ status[pending_receipts[MainRun][i]] = PENDING)
    /\ [][(pc[MainRun] = "llm" /\ pc'[MainRun] # "llm") =>
             llm_calls'[MainRun][Current(MainRun)] =
                 llm_calls[MainRun][Current(MainRun)] + 1]_vars

\* the run awaits the extraction call for the first receipt of a list of
\* several: the receipt is in processing, the later ones wait, pending
C28_AwaitingWithReceiptsBehind ==
    /\ pc[MainRun] = "llm"
    /\ idx[MainRun] = 1
    /\ Len(pending_receipts[MainRun]) >= 2
    /\ status[Current(MainRun)] = PROCESSING
    /\ llm_calls[MainRun][Current(MainRun)] = 0
    /\ \A i \in 2..Len(pending_receipts[MainRun]) :
          status[pending_receipts[MainRun][i]] = PENDING

\* C31: inside the writer the receipt update comes before the item insert, and
\* the rows of one attempt go in by one insert. Whenever the writer is at the
\* part that builds and inserts the rows of a receipt, that receipt already has
\* status processed and the extraction's merchant, date and total; a step that
\* changes the rows of a receipt is taken there and appends one row for every
\* line of the extraction at once; and a receipt of the fetched list holds
\* either no row or as many rows as its accepted extraction has lines.
C31_UpdateBeforeBulkInsert ==
    [][/\ \A run \in Runs :
              pc[run] = "db_items" =>
                  /\ status[Current(run)] = PROCESSED
                  /\ fields[Current(run)] = update_data(structured_data[run])
                  /\ writer_calls[run][Current(run)] = 1
       /\ \A r \in Receipts :
              items'[r] # items[r] =>
                  /\ pc[MainRun] = "db_items" /\ Current(MainRun) = r
                  /\ status[r] = PROCESSED
                  /\ fields[r] # None
                  /\ items'[r] = items[r] \o
                         items_to_insert(r, structured_data[MainRun])
       /\ \A r \in Fetched(MainRun) :
              \/ items[r] = << >>
              \/ /\ Accepted(raw_response[MainRun][r])
                 /\ Len(items[r]) = Len(raw_response[MainRun][r].items)]_vars

\* the writer has written the receipt update for an extraction of two lines
\* and is about to build and insert the rows: the receipt is processed with
\* its fields set and has no row yet
C31_UpdatedAwaitingInsert ==
    /\ pc[MainRun] = "db_items"
    /\ Len(structured_data[MainRun].items) = 2
    /\ status[Current(MainRun)] = PROCESSED
    /\ fields[Current(MainRun)] = update_data(structured_data[MainRun])
    /\ items[Current(MainRun)] = << >>

====
